---- MODULE Spec2Model ----
(***************************************************************************)
(* Model of rac-pro: a console utility that sets, measures and resets the  *)
(* Windows multimedia timer resolution.  The repository holds two builds   *)
(* of the same program: src/src/main.rs (windows crate, "src") and         *)
(* src/racpro/src/main.rs (winapi crate, "racpro").  The variable          *)
(* `variant` selects the build; both are modelled from their own code.     *)
(*                                                                         *)
(* Every handler (set_custom, measure, reset_to_default, ...) is a pure    *)
(* operator from the results the operating system hands back (its inputs)  *)
(* to the list of OS calls it makes, the lines it prints and its return    *)
(* value.  The actions draw the OS results, run the handler and apply its  *)
(* calls to the OS state (named mutex, timer period requests, loaded       *)
(* library handles).                                                       *)
(*                                                                         *)
(* A panic (unwrap/expect on Err) unwinds: live locals with a Drop impl    *)
(* are dropped, raw handles are not.  Failures of stdout are not modelled. *)
(***************************************************************************)
EXTENDS Integers, Sequences, FiniteSets, TLC

\* ------------------------------------------------------------------ bounds
\* Largest timer period (ms) the capability query may report.
MaxCap == 2
\* Rounds of one measurement; stands for the 100 of main's measure(100).
Iterations == 2
\* Largest elapsed-time sample (in ticks) of one round.
MaxSample == 2
\* Menu lines one process reads before only "3" (Close) is offered, alone.
MaxActions == 3
\* The same when two processes run side by side.
MaxActionsTwo == 1

\* ------------------------------------------------------- program constants
Target == 1
EndPeriodArg == 1
DefaultPeriod == 16

Variants == {"src", "racpro"}
Procs == {1, 2}

\* Library handles of measure: h_ntdll (LoadLibraryW) and lib (libloading).
HNtdll == 1
HLib == 2

Periods == (0..MaxCap) \cup {Target, EndPeriodArg, DefaultPeriod}
Samples == 1..MaxSample

VARIABLES
    variant,      \* which build runs
    procs,        \* the processes that were launched
    pc,           \* pc[p]: where process p is
    input,        \* input[p]: the line last read at the menu prompt
    mutexOutcome, \* mutexOutcome[p]: what CreateMutexW did for p
    mutexHandle,  \* mutexHandle[p]: create_app_mutex's result (_mutex_handle)
    mutexOpen,    \* mutexOpen[p]: open handles of p to the named mutex
    admin,        \* admin[p]: is_running_as_admin's result
    libs,         \* libs[p]: library handles p holds loaded
    periods,      \* periods[p][q]: begin-period requests for q not yet ended
    timerCalls,   \* timerCalls[p]: timer API calls p has made so far
    nActions,     \* nActions[p]: menu lines p has read
    calls,        \* calls[p]: OS calls of the current step (startup, or one menu action)
    out,          \* out[p]: lines printed by the current step
    ret,          \* ret[p]: return value of the last handler
    lastRead      \* lastRead[p]: the prompt of p's last stdin read and whether it succeeded

vars == <<variant, procs, pc, input, mutexOutcome, mutexHandle, mutexOpen, admin,
          libs, periods, timerCalls, nActions, calls, out, ret, lastRead>>

\* ------------------------------------------------------------------ helpers
Call(op, args, ok) == [op |-> op, args |-> args, ok |-> ok]
Msg(text, args) == [text |-> text, args |-> args]

RECURSIVE SumSeq(_)
SumSeq(s) == IF s = <<>> THEN 0 ELSE Head(s) + SumSeq(Tail(s))

RECURSIVE CountCalls(_, _)
CountCalls(cs, ops) ==
    IF cs = <<>> THEN 0
    ELSE (IF Head(cs).op \in ops THEN 1 ELSE 0) + CountCalls(Tail(cs), ops)

TimerOps == {"timeGetDevCaps", "timeBeginPeriod", "timeEndPeriod", "NtQueryTimerResolution"}
LoadOps == {"LoadLibraryW", "Library::new"}

HasMsg(o, text) == \E i \in 1..Len(o) : o[i].text = text

\* ---------------------------------------------------------- the OS's state
\* timeBeginPeriod adds one request for its period when it succeeds;
\* timeEndPeriod removes one request for its period when there is one.
RECURSIVE ApplyTimer(_, _)
ApplyTimer(per, cs) ==
    IF cs = <<>> THEN per
    ELSE LET c == Head(cs)
             q == c.args[1]
             nxt == IF c.op = "timeBeginPeriod" /\ c.ok
                        THEN [per EXCEPT ![q] = @ + 1]
                    ELSE IF c.op = "timeEndPeriod" /\ per[q] > 0
                        THEN [per EXCEPT ![q] = @ - 1]
                    ELSE per
         IN ApplyTimer(nxt, Tail(cs))

\* A successful load adds the handle; FreeLibrary removes it.
RECURSIVE ApplyLibs(_, _)
ApplyLibs(held, cs) ==
    IF cs = <<>> THEN held
    ELSE LET c == Head(cs)
             nxt == IF c.op \in LoadOps /\ c.ok THEN held \cup {c.args[1]}
                    ELSE IF c.op = "FreeLibrary" THEN held \ {c.args[1]}
                    ELSE held
         IN ApplyLibs(nxt, Tail(cs))

MutexExists == \E p \in Procs : mutexOpen[p] > 0

\* ------------------------------------------------------------ pure handlers
\* A handler's result: the OS calls it made, the lines it printed, what it
\* returned, and whether it panicked instead of returning.
Result(cs, o, r, pan) == [calls |-> cs, out |-> o, ret |-> r, panic |-> pan]

\* create_app_mutex: outcome is what CreateMutexW did: "created" (new object,
\* last error 0), "exists" (handle to the existing object, last error
\* ERROR_ALREADY_EXISTS) or "failed" (no handle, some other last error).
\* src/src/main.rs matches on the Result first: Err(_) => None.
CreateAppMutexSrc(outcome) ==
    IF outcome = "failed" THEN "None"
    ELSE IF outcome = "exists" THEN "None" ELSE "Some"

\* src/racpro/src/main.rs looks at the last error alone and wraps whatever
\* handle came back, a null one included.
CreateAppMutexRacpro(outcome) ==
    IF outcome = "exists" THEN "None"
    ELSE IF outcome = "failed" THEN "SomeNull" ELSE "Some"

CreateAppMutex(v, outcome) ==
    IF v = "src" THEN CreateAppMutexSrc(outcome) ELSE CreateAppMutexRacpro(outcome)

\* is_running_as_admin: false when the token cannot be opened or queried.
\* src/src/main.rs closes the token handle once it was opened.
IsRunningAsAdminSrc(openOk, queryOk, elevated) ==
    IF ~openOk
        THEN Result(<<Call("OpenProcessToken", <<>>, FALSE)>>, <<>>, FALSE, FALSE)
        ELSE LET result == IF queryOk THEN elevated ELSE FALSE
             IN Result(<<Call("OpenProcessToken", <<>>, TRUE),
                         Call("GetTokenInformation", <<>>, queryOk),
                         Call("CloseHandle", <<>>, TRUE)>>,
                       <<>>, result, FALSE)

\* src/racpro/src/main.rs never closes the token handle.
IsRunningAsAdminRacpro(openOk, queryOk, elevated) ==
    IF ~openOk
        THEN Result(<<Call("OpenProcessToken", <<>>, FALSE)>>, <<>>, FALSE, FALSE)
        ELSE LET result == IF queryOk THEN elevated ELSE FALSE
             IN Result(<<Call("OpenProcessToken", <<>>, TRUE),
                         Call("GetTokenInformation", <<>>, queryOk)>>,
                       <<>>, result, FALSE)

IsRunningAsAdmin(v, openOk, queryOk, elevated) ==
    IF v = "src" THEN IsRunningAsAdminSrc(openOk, queryOk, elevated)
                 ELSE IsRunningAsAdminRacpro(openOk, queryOk, elevated)

\* get_caps: Some((min, max)) when timeGetDevCaps reports no error.
GetCaps(capsOk, min, max) ==
    IF capsOk THEN [some |-> TRUE, min |-> min, max |-> max,
                    call |-> Call("timeGetDevCaps", <<min, max>>, TRUE)]
              ELSE [some |-> FALSE, min |-> 0, max |-> 0,
                    call |-> Call("timeGetDevCaps", <<>>, FALSE)]

\* set_custom that forgets to clamp up: below the minimum it still asks for the target.
SetCustomNoClamp(capsOk, min, max, beginOk) ==
    LET caps == GetCaps(capsOk, min, max)
        target == Target
    IN IF caps.some
        THEN IF target < caps.min
                THEN Result(<<caps.call, Call("timeBeginPeriod", <<target>>, beginOk)>>,
                            <<Msg("System minimum is higher than 1ms", <<caps.min>>),
                              Msg("Setting to system minimum", <<caps.min>>)>>,
                            TRUE, FALSE)
             ELSE IF target > caps.max
                THEN Result(<<caps.call, Call("timeBeginPeriod", <<caps.max>>, beginOk)>>,
                            <<Msg("1ms exceeds system maximum", <<caps.max>>),
                              Msg("Setting to system maximum", <<caps.max>>)>>,
                            TRUE, FALSE)
             ELSE Result(<<caps.call, Call("timeBeginPeriod", <<target>>, beginOk)>>,
                         <<Msg("SC set to", <<target>>)>>, TRUE, FALSE)
        ELSE Result(<<caps.call>>, <<Msg("Failed to set.", <<>>)>>, FALSE, FALSE)

\* set_custom (the same in both builds).  timeBeginPeriod's status is dropped.
SetCustom(capsOk, min, max, beginOk) ==
    LET caps == GetCaps(capsOk, min, max)
        target == Target
    IN IF caps.some
        THEN IF target < caps.min
                THEN Result(<<caps.call, Call("timeBeginPeriod", <<caps.min>>, beginOk)>>,
                            <<Msg("System minimum is higher than 1ms", <<caps.min>>),
                              Msg("Setting to system minimum", <<caps.min>>)>>,
                            TRUE, FALSE)
             ELSE IF target > caps.max
                THEN Result(<<caps.call, Call("timeBeginPeriod", <<caps.max>>, beginOk)>>,
                            <<Msg("1ms exceeds system maximum", <<caps.max>>),
                              Msg("Setting to system maximum", <<caps.max>>)>>,
                            TRUE, FALSE)
             ELSE Result(<<caps.call, Call("timeBeginPeriod", <<target>>, beginOk)>>,
                         <<Msg("SC set to", <<target>>)>>, TRUE, FALSE)
        ELSE Result(<<caps.call>>, <<Msg("Failed to set.", <<>>)>>, FALSE, FALSE)

\* reset_to_default that begins the default period before ending the 1 ms one.
ResetToDefaultSwapped(beginOk) ==
    LET default_period == DefaultPeriod
        cs == <<Call("timeBeginPeriod", <<default_period>>, beginOk),
                Call("timeEndPeriod", <<EndPeriodArg>>, TRUE)>>
    IN IF beginOk
        THEN Result(cs, <<Msg("Successfully reset to default (~15.6ms)", <<>>)>>, TRUE, FALSE)
        ELSE Result(cs, <<Msg("Failed to reset to default", <<>>)>>, FALSE, FALSE)

\* reset_to_default (the same in both builds).
ResetToDefault(beginOk) ==
    LET default_period == DefaultPeriod
        cs == <<Call("timeEndPeriod", <<EndPeriodArg>>, TRUE),
                Call("timeBeginPeriod", <<default_period>>, beginOk)>>
    IN IF beginOk
        THEN Result(cs, <<Msg("Successfully reset to default (~15.6ms)", <<>>)>>, TRUE, FALSE)
        ELSE Result(cs, <<Msg("Failed to reset to default", <<>>)>>, FALSE, FALSE)

\* One round of measure's loop: the resolution query, then the two counter
\* samples (start, end) around Sleep(1).
RoundCalls(start, end) == <<Call("NtQueryTimerResolution", <<>>, TRUE),
                            Call("QueryPerformanceCounter", <<start>>, TRUE),
                            Call("Sleep", <<1>>, TRUE),
                            Call("QueryPerformanceCounter", <<end>>, TRUE)>>

\* let elapsed = (end - start) as f64 / freq as f64 * 1000.0: counter values
\* are taken in milliseconds, so that the scale factor 1000 / freq is 1.
Elapsed(start, end) == end - start

\* total_elapsed = elapsed: the sum lost, only the last round kept.
AccumulateOverwrite(total_elapsed, elapsed) == elapsed

\* total_elapsed += elapsed
Accumulate(total_elapsed, elapsed) == total_elapsed + elapsed

\* for _ in 0..iterations { ... }: rounds i..iterations.  e.failRound is the
\* round whose resolution query fails (0: none); in round i the counter reads
\* e.start[i] before the sleep and e.start[i] + e.samples[i] after it.
RECURSIVE MeasureLoop(_, _, _, _, _)
MeasureLoop(i, iterations, e, total_elapsed, cs) ==
    IF i > iterations
        THEN [failed |-> FALSE, total |-> total_elapsed, calls |-> cs]
    ELSE IF e.failRound = i
        THEN [failed |-> TRUE, total |-> total_elapsed,
              calls |-> Append(cs, Call("NtQueryTimerResolution", <<>>, FALSE))]
    ELSE LET start == e.start[i]
             end == e.start[i] + e.samples[i]
         IN MeasureLoop(i + 1, iterations, e,
                        Accumulate(total_elapsed, Elapsed(start, end)),
                        cs \o RoundCalls(start, end))

\* The line measure prints after the loop: the average is total / iterations,
\* kept as the pair (numerator, denominator).
AverageMsg(iterations, total_elapsed) ==
    Msg("Average over iterations", <<iterations, total_elapsed, iterations>>)

Free(h) == Call("FreeLibrary", <<h>>, TRUE)

\* measure of src/src/main.rs.
MeasureSrc(iterations, e) ==
    IF ~e.load
        THEN Result(<<Call("LoadLibraryW", <<HNtdll>>, FALSE)>>,
                    <<Msg("LoadLibrary failed", <<>>)>>, TRUE, FALSE)
    ELSE IF ~e.sym
        THEN Result(<<Call("LoadLibraryW", <<HNtdll>>, TRUE),
                      Call("GetProcAddress", <<>>, FALSE), Free(HNtdll)>>,
                    <<Msg("Failed to load NtQueryTimerResolution", <<>>)>>, TRUE, FALSE)
    ELSE IF ~e.freq
        THEN Result(<<Call("LoadLibraryW", <<HNtdll>>, TRUE),
                      Call("GetProcAddress", <<>>, TRUE),
                      Call("QueryPerformanceFrequency", <<>>, FALSE), Free(HNtdll)>>,
                    <<Msg("QueryPerformanceFrequency failed", <<>>)>>, TRUE, FALSE)
    ELSE LET l == MeasureLoop(1, iterations, e, 0,
                              <<Call("LoadLibraryW", <<HNtdll>>, TRUE),
                                Call("GetProcAddress", <<>>, TRUE),
                                Call("QueryPerformanceFrequency", <<>>, TRUE)>>)
         IN IF l.failed
                THEN Result(Append(l.calls, Free(HNtdll)),
                            <<Msg("NtQueryTimerResolution failed", <<>>)>>, TRUE, FALSE)
                ELSE Result(l.calls \o <<Call("NtQueryTimerResolution", <<>>, e.final),
                                         Free(HNtdll)>>,
                            <<AverageMsg(iterations, l.total)>>, TRUE, FALSE)

\* measure of src/racpro/src/main.rs: the library is loaded twice (LoadLibraryW
\* and libloading's Library::new, unwrapped); lib is dropped, hence freed, when
\* the function returns; QueryPerformanceFrequency's status is not looked at.
MeasureRacpro(iterations, e) ==
    IF ~e.load
        THEN Result(<<Call("LoadLibraryW", <<HNtdll>>, FALSE)>>,
                    <<Msg("LoadLibrary failed", <<>>)>>, TRUE, FALSE)
    ELSE IF ~e.load2
        THEN Result(<<Call("LoadLibraryW", <<HNtdll>>, TRUE),
                      Call("Library::new", <<HLib>>, FALSE)>>,
                    <<>>, FALSE, TRUE)
    ELSE IF ~e.sym
        THEN Result(<<Call("LoadLibraryW", <<HNtdll>>, TRUE),
                      Call("Library::new", <<HLib>>, TRUE),
                      Call("GetProcAddress", <<>>, FALSE), Free(HNtdll), Free(HLib)>>,
                    <<Msg("Failed to load NtQueryTimerResolution", <<>>)>>, TRUE, FALSE)
    ELSE LET l == MeasureLoop(1, iterations, e, 0,
                              <<Call("LoadLibraryW", <<HNtdll>>, TRUE),
                                Call("Library::new", <<HLib>>, TRUE),
                                Call("GetProcAddress", <<>>, TRUE),
                                Call("QueryPerformanceFrequency", <<>>, e.freq)>>)
         IN IF l.failed
                THEN Result(l.calls \o <<Free(HNtdll), Free(HLib)>>,
                            <<Msg("NtQueryTimerResolution failed", <<>>)>>, TRUE, FALSE)
                ELSE Result(l.calls \o <<Call("NtQueryTimerResolution", <<>>, e.final),
                                         Free(HNtdll), Free(HLib)>>,
                            <<AverageMsg(iterations, l.total)>>, TRUE, FALSE)

Measure(v, iterations, e) ==
    IF v = "src" THEN MeasureSrc(iterations, e) ELSE MeasureRacpro(iterations, e)

\* What the OS can hand back to one measure call: whether each load, the
\* symbol lookup, the frequency query and the query after the loop succeed,
\* the round whose resolution query fails (0: none), and the counter values.
\* The result of a call measure cannot reach (after an earlier failure that
\* returns in both builds) is not drawn.
MeasureEnvs ==
    { e \in [load : BOOLEAN, load2 : BOOLEAN, sym : BOOLEAN, freq : BOOLEAN, final : BOOLEAN,
             failRound : 0..Iterations, samples : [1..Iterations -> Samples],
             start : {[i \in 1..Iterations |-> 10 * i]}] :
        /\ ~e.load => (e.load2 /\ e.sym)
        /\ ~(e.load /\ e.sym) => (e.freq /\ e.failRound = 0)
        /\ ~(e.load /\ e.sym /\ e.failRound = 0) => e.final
        /\ \A i \in 1..Iterations :
              (~(e.load /\ e.sym) \/ (e.failRound # 0 /\ i >= e.failRound))
                  => e.samples[i] = 1 }

\* str::trim on a line given as its characters.
Whitespace == {" ", "\n", "\r", "\t"}

RECURSIVE TrimStart(_)
TrimStart(s) ==
    IF s # <<>> /\ Head(s) \in Whitespace THEN TrimStart(Tail(s)) ELSE s

RECURSIVE TrimEnd(_)
TrimEnd(s) ==
    IF s # <<>> /\ s[Len(s)] \in Whitespace THEN TrimEnd(SubSeq(s, 1, Len(s) - 1)) ELSE s

Trim(s) == TrimEnd(TrimStart(s))

\* The lines typed at the menu prompt.
Lines == { <<"1", "\n">>, <<"2", "\n">>, <<"3", "\n">>, <<" ", "4", "\r", "\n">>,
           <<"5", "\n">>, <<"\n">>, <<"a", "b", "c", "\n">> }

\* match input.trim() { "1" => .., "2" => .., "3" => .., "4" => .., _ => .. }
Dispatch(line) ==
    LET t == Trim(line)
    IN IF t = <<"1">> THEN "set_custom"
       ELSE IF t = <<"2">> THEN "measure"
       ELSE IF t = <<"3">> THEN "close"
       ELSE IF t = <<"4">> THEN "reset_to_default"
       ELSE "invalid"

PressEnter == Msg("Press Enter to continue...", <<>>)
InvalidMsg == Msg("Invalid option! Please select 1, 2, 3, or 4.", <<>>)

\* A failed read at a pacing prompt ("Press Enter ..."): src discards the
\* Result (let _ =), racpro unwraps it.
PacingReadPanics(v, readOk) == v = "racpro" /\ ~readOk

\* A failed read at the menu prompt: .expect("Failed to read input") in both.
MenuReadPanics(readOk) == ~readOk

\* A MutexHandle without the Drop impl: the handle stays open.
DropMutexHandleLeak(h, open) == open

\* Drop of _mutex_handle (impl Drop for MutexHandle: CloseHandle(self.0)) when
\* main returns or unwinds: closes the handle the process got from a
\* successful create_app_mutex.  Closing the null handle of "SomeNull" does
\* nothing, and with "None" there is no MutexHandle to drop.
DropMutexHandle(h, open) == IF h = "Some" THEN open - 1 ELSE open

\* ------------------------------------------------------------------ state
MenuText == <<Msg("1. Set to 1ms (if supported)", <<>>), Msg("2. Measure", <<>>),
              Msg("3. Close", <<>>), Msg("4. Reset to default (~15.6ms)", <<>>),
              Msg("Select an option (1-4): ", <<>>)>>
AlreadyRunningText ==
    <<Msg("Another instance of this application is already running.", <<>>),
      Msg("Please close the other instance first.", <<>>),
      Msg("Press Enter to exit...", <<>>)>>
NotAdminText ==
    <<Msg("This application requires administrator privileges.", <<>>),
      Msg("Please restart the program as administrator.", <<>>),
      Msg("Press Enter to exit...", <<>>)>>

\* Menu lines a process may still act on (a bound of the model).
Budget == IF Cardinality(procs) = 1 THEN MaxActions ELSE MaxActionsTwo

\* The processes of P are about to start.  A process outside P never takes a
\* step: it is either absent, or an instance that is already running (it
\* created the mutex, is elevated and sits at its menu prompt).
InitWith(P) ==
    /\ variant \in Variants
    /\ procs = P
    /\ \E R \in SUBSET (Procs \ P) :
        /\ pc = [p \in Procs |-> IF p \in R THEN "AwaitingInput" ELSE "Start"]
        /\ mutexOutcome = [p \in Procs |-> IF p \in R THEN "created" ELSE "none"]
        /\ mutexHandle = [p \in Procs |-> IF p \in R THEN "Some" ELSE "unset"]
        /\ mutexOpen = [p \in Procs |-> IF p \in R THEN 1 ELSE 0]
        /\ admin = [p \in Procs |-> IF p \in R THEN "yes" ELSE "unknown"]
    /\ input = [p \in Procs |-> <<>>]
    /\ libs = [p \in Procs |-> {}]
    /\ periods = [p \in Procs |-> [q \in Periods |-> 0]]
    /\ timerCalls = [p \in Procs |-> 0]
    /\ nActions = [p \in Procs |-> 0]
    /\ calls = [p \in Procs |-> <<>>]
    /\ out = [p \in Procs |-> <<>>]
    /\ ret = [p \in Procs |-> FALSE]
    /\ lastRead = [p \in Procs |-> [prompt |-> "none", ok |-> TRUE]]

Init == InitWith({1})
InitTwo == InitWith(Procs)

\* ---------------------------------------------------------------- actions
\* main: let _mutex_handle = match create_app_mutex() { ... }
MainCreateMutex(p) ==
    /\ pc[p] = "Start"
    /\ \E outcome \in {"created", "exists", "failed"} :
        /\ outcome = "created" => ~MutexExists
        /\ outcome = "exists" => MutexExists
        /\ LET h == CreateAppMutex(variant, outcome)
           IN /\ mutexOutcome' = [mutexOutcome EXCEPT ![p] = outcome]
              /\ mutexHandle' = [mutexHandle EXCEPT ![p] = h]
              /\ mutexOpen' = [mutexOpen EXCEPT ![p] = IF outcome = "failed" THEN @ ELSE @ + 1]
              /\ calls' = [calls EXCEPT ![p] = <<Call("CreateMutexW", <<>>, outcome # "failed")>>]
              /\ out' = [out EXCEPT ![p] = IF h = "None" THEN AlreadyRunningText ELSE <<>>]
              /\ pc' = [pc EXCEPT ![p] = IF h = "None" THEN "ExitPrompt" ELSE "CheckAdmin"]
    /\ UNCHANGED <<variant, procs, input, admin, libs, periods, timerCalls, nActions, ret,
                   lastRead>>

\* main: if !is_running_as_admin() { ... }
MainCheckAdmin(p) ==
    /\ pc[p] = "CheckAdmin"
    /\ \E openOk \in BOOLEAN, queryOk \in BOOLEAN, elevated \in BOOLEAN :
        LET r == IsRunningAsAdmin(variant, openOk, queryOk, elevated)
        IN /\ admin' = [admin EXCEPT ![p] = IF r.ret THEN "yes" ELSE "no"]
           /\ calls' = [calls EXCEPT ![p] = @ \o r.calls]
           /\ out' = [out EXCEPT ![p] = IF r.ret THEN @ ELSE NotAdminText]
           /\ pc' = [pc EXCEPT ![p] = IF r.ret THEN "AwaitingInput" ELSE "ExitPrompt"]
    /\ UNCHANGED <<variant, procs, input, mutexOutcome, mutexHandle, mutexOpen, libs,
                   periods, timerCalls, nActions, ret, lastRead>>

\* main: the read after "Press Enter to exit...", then return.
MainExitPrompt(p) ==
    /\ pc[p] = "ExitPrompt"
    /\ \E readOk \in BOOLEAN :
        /\ lastRead' = [lastRead EXCEPT ![p] = [prompt |-> "exit", ok |-> readOk]]
        /\ pc' = [pc EXCEPT ![p] = IF PacingReadPanics(variant, readOk)
                                       THEN "Panicked" ELSE "Returned"]
    /\ mutexOpen' = [mutexOpen EXCEPT ![p] = DropMutexHandle(mutexHandle[p], @)]
    /\ UNCHANGED <<variant, procs, input, mutexOutcome, mutexHandle, admin, libs, periods,
                   timerCalls, nActions, calls, out, ret>>

\* main's loop: clear the screen, print the menu, read a line.
MenuRead(p) ==
    /\ pc[p] = "AwaitingInput"
    /\ \E readOk \in BOOLEAN, line \in Lines :
        /\ nActions[p] < Budget \/ ~readOk \/ Dispatch(line) = "close"
        /\ lastRead' = [lastRead EXCEPT ![p] = [prompt |-> "menu", ok |-> readOk]]
        /\ IF MenuReadPanics(readOk)
            THEN /\ pc' = [pc EXCEPT ![p] = "Panicked"]
                 /\ mutexOpen' = [mutexOpen EXCEPT ![p] = DropMutexHandle(mutexHandle[p], @)]
                 /\ UNCHANGED <<input, nActions>>
            ELSE /\ pc' = [pc EXCEPT ![p] = "Dispatching"]
                 /\ input' = [input EXCEPT ![p] = line]
                 /\ nActions' = [nActions EXCEPT ![p] = @ + 1]
                 /\ UNCHANGED mutexOpen
    /\ out' = [out EXCEPT ![p] = MenuText]
    /\ calls' = [calls EXCEPT ![p] = <<>>]
    /\ UNCHANGED <<variant, procs, mutexOutcome, mutexHandle, admin, libs, periods,
                   timerCalls, ret>>

\* A menu branch ran handler result r: its calls reach the OS, its lines and
\* "Press Enter to continue..." are printed; a panic unwinds main instead.
Finish(p, r) ==
    /\ calls' = [calls EXCEPT ![p] = r.calls]
    /\ out' = [out EXCEPT ![p] = IF r.panic THEN @ \o r.out
                                            ELSE (@ \o r.out) \o <<PressEnter>>]
    /\ ret' = [ret EXCEPT ![p] = r.ret]
    /\ periods' = [periods EXCEPT ![p] = ApplyTimer(@, r.calls)]
    /\ libs' = [libs EXCEPT ![p] = ApplyLibs(@, r.calls)]
    /\ timerCalls' = [timerCalls EXCEPT ![p] = @ + CountCalls(r.calls, TimerOps)]
    /\ pc' = [pc EXCEPT ![p] = IF r.panic THEN "Panicked" ELSE "Pacing"]
    /\ mutexOpen' = [mutexOpen EXCEPT ![p] =
                        IF r.panic THEN DropMutexHandle(mutexHandle[p], @) ELSE @]
    /\ UNCHANGED <<variant, procs, input, mutexOutcome, mutexHandle, admin, nActions,
                   lastRead>>

\* "1" => set_custom()
DoSetCustom(p) ==
    /\ pc[p] = "Dispatching"
    /\ Dispatch(input[p]) = "set_custom"
    /\ \E capsOk \in BOOLEAN, min \in 0..MaxCap, max \in 0..MaxCap, beginOk \in BOOLEAN :
        /\ min <= max
        /\ Finish(p, SetCustom(capsOk, min, max, beginOk))

\* "2" => measure(100)
DoMeasure(p) ==
    /\ pc[p] = "Dispatching"
    /\ Dispatch(input[p]) = "measure"
    /\ \E e \in MeasureEnvs : Finish(p, Measure(variant, Iterations, e))

\* "4" => reset_to_default()
DoReset(p) ==
    /\ pc[p] = "Dispatching"
    /\ Dispatch(input[p]) = "reset_to_default"
    /\ \E beginOk \in BOOLEAN : Finish(p, ResetToDefault(beginOk))

\* _ => "Invalid option! ..."
DoInvalid(p) ==
    /\ pc[p] = "Dispatching"
    /\ Dispatch(input[p]) = "invalid"
    /\ Finish(p, Result(<<>>, <<InvalidMsg>>, FALSE, FALSE))

\* "3" => break, and main returns.
DoClose(p) ==
    /\ pc[p] = "Dispatching"
    /\ Dispatch(input[p]) = "close"
    /\ out' = [out EXCEPT ![p] = Append(@, Msg("Closing application...", <<>>))]
    /\ pc' = [pc EXCEPT ![p] = "Returned"]
    /\ mutexOpen' = [mutexOpen EXCEPT ![p] = DropMutexHandle(mutexHandle[p], @)]
    /\ UNCHANGED <<variant, procs, input, mutexOutcome, mutexHandle, admin, libs, periods,
                   timerCalls, nActions, calls, ret, lastRead>>

\* The read after "Press Enter to continue...".
PacingRead(p) ==
    /\ pc[p] = "Pacing"
    /\ \E readOk \in BOOLEAN :
        /\ lastRead' = [lastRead EXCEPT ![p] = [prompt |-> "pacing", ok |-> readOk]]
        /\ IF PacingReadPanics(variant, readOk)
            THEN /\ pc' = [pc EXCEPT ![p] = "Panicked"]
                 /\ mutexOpen' = [mutexOpen EXCEPT ![p] = DropMutexHandle(mutexHandle[p], @)]
            ELSE /\ pc' = [pc EXCEPT ![p] = "AwaitingInput"]
                 /\ UNCHANGED mutexOpen
    /\ UNCHANGED <<variant, procs, input, mutexOutcome, mutexHandle, admin, libs, periods,
                   timerCalls, nActions, calls, out, ret>>

\* The process ends after main returned or unwound: the OS closes what it
\* still holds (handles, loaded libraries, timer period requests).
ProcessExit(p) ==
    /\ pc[p] \in {"Returned", "Panicked"}
    /\ pc' = [pc EXCEPT ![p] = "Terminated"]
    /\ mutexOpen' = [mutexOpen EXCEPT ![p] = 0]
    /\ libs' = [libs EXCEPT ![p] = {}]
    /\ periods' = [periods EXCEPT ![p] = [q \in Periods |-> 0]]
    /\ UNCHANGED <<variant, procs, input, mutexOutcome, mutexHandle, admin, timerCalls,
                   nActions, calls, out, ret, lastRead>>

Next ==
    \/ \E p \in procs : MainCreateMutex(p)
    \/ \E p \in procs : MainCheckAdmin(p)
    \/ \E p \in procs : MainExitPrompt(p)
    \/ \E p \in procs : MenuRead(p)
    \/ \E p \in procs : DoSetCustom(p)
    \/ \E p \in procs : DoMeasure(p)
    \/ \E p \in procs : DoReset(p)
    \/ \E p \in procs : DoInvalid(p)
    \/ \E p \in procs : DoClose(p)
    \/ \E p \in procs : PacingRead(p)
    \/ \E p \in procs : ProcessExit(p)

Spec == Init /\ [][Next]_vars
SpecTwo == InitTwo /\ [][Next]_vars

\* ------------------------------------------------------------------ claims
Max2(a, b) == IF a >= b THEN a ELSE b
Min2(a, b) == IF a <= b THEN a ELSE b
Clamp(t, lo, hi) == Max2(lo, Min2(t, hi))

CallsOf(cs, op) == SelectSeq(cs, LAMBDA c : c.op = op)

InMenu(p) == pc[p] \in {"AwaitingInput", "Dispatching", "Pacing"}
Leaving(p) == pc[p] \in {"ExitPrompt", "Returned", "Panicked", "Terminated"}
\* Process p has just run the menu branch `branch` and stands at its pacing prompt.
Ran(p, branch) == pc[p] = "Pacing" /\ Dispatch(input[p]) = branch
\* The lines the last menu branch printed: the screen without the menu above them.
Printed(p) == SubSeq(out[p], Len(MenuText) + 1, Len(out[p]))

\* C1: after set_custom whose capability query succeeded with (min, max),
\* min <= max, exactly one begin-period request was issued, its argument is
\* clamp(1, min, max), and the printed lines name the branch taken: below-min
\* iff 1 < min, above-max iff 1 > max, exact otherwise.
C1_SetCustomClamps ==
    \A p \in procs :
        (Ran(p, "set_custom") /\ calls[p][1].ok /\ calls[p][1].args[1] <= calls[p][1].args[2]) =>
            LET min == calls[p][1].args[1]
                max == calls[p][1].args[2]
                begins == CallsOf(calls[p], "timeBeginPeriod")
            IN /\ Len(begins) = 1
               /\ begins[1].args = <<Clamp(Target, min, max)>>
               /\ HasMsg(Printed(p), "System minimum is higher than 1ms") <=> (Target < min)
               /\ HasMsg(Printed(p), "1ms exceeds system maximum") <=> (Target > max)
               /\ HasMsg(Printed(p), "SC set to") <=> (min <= Target /\ Target <= max)

\* C1's case: set_custom ran on a system whose minimum period is above 1 ms.
C1_Witness ==
    \E p \in procs :
        Ran(p, "set_custom") /\ calls[p][1].ok /\ calls[p][1].args[1] > Target

\* C2: a process whose CreateMutexW found the mutex already existing gets None,
\* never enters the menu loop and makes no timer call; and at most one process
\* is inside the menu loop at any time.
C2_SingleInstance ==
    /\ \A p \in procs :
          mutexOutcome[p] = "exists" =>
              mutexHandle[p] = "None" /\ Leaving(p) /\ timerCalls[p] = 0 /\ nActions[p] = 0
    /\ Cardinality({p \in procs : InMenu(p)}) <= 1

\* The elapsed times measure sampled, read off the counter values of its calls.
RECURSIVE SamplesOf(_)
SamplesOf(cs) ==
    IF Len(cs) < 2 THEN <<>>
    ELSE <<cs[2].args[1] - cs[1].args[1]>> \o SamplesOf(SubSeq(cs, 3, Len(cs)))

MeasuredSamples(p) == SamplesOf(CallsOf(calls[p], "QueryPerformanceCounter"))
\* The resolution queries made inside the loop: the first Iterations ones.
RoundQueries(p) ==
    LET qs == CallsOf(calls[p], "NtQueryTimerResolution")
    IN SubSeq(qs, 1, Min2(Len(qs), Iterations))
Averages(p) == SelectSeq(Printed(p), LAMBDA m : m.text = "Average over iterations")
AllOk(cs) == \A i \in 1..Len(cs) : cs[i].ok

\* C3: a measure(n) whose loads, symbol lookup and n per-round resolution
\* queries all succeeded prints exactly one average, the sum of exactly n
\* samples over n; when the query of round k fails, exactly k-1 samples were
\* taken and no average is printed.
C3_MeasureAverage ==
    \A p \in procs :
        Ran(p, "measure") =>
            LET qs == RoundQueries(p)
                smp == MeasuredSamples(p)
                avg == Averages(p)
            IN /\ (Len(qs) = Iterations /\ AllOk(qs)) =>
                      /\ Len(avg) = 1
                      /\ Len(smp) = Iterations
                      /\ avg[1].args = <<Iterations, SumSeq(smp), Iterations>>
               /\ \A k \in 1..Len(qs) :
                      ~qs[k].ok => (Len(qs) = k /\ Len(smp) = k - 1 /\ Len(avg) = 0)

\* C3's case: a complete measurement whose rounds took different times.
C3_Witness ==
    \E p \in procs :
        /\ Ran(p, "measure")
        /\ Len(Averages(p)) = 1
        /\ Len(MeasuredSamples(p)) = Iterations
        /\ MeasuredSamples(p)[1] # MeasuredSamples(p)[Iterations]

\* C3's other case: the query of the last round failed.
C3_WitnessFail ==
    \E p \in procs :
        /\ Ran(p, "measure")
        /\ Len(RoundQueries(p)) = Iterations
        /\ ~RoundQueries(p)[Iterations].ok

\* C4: every way out of measure has released each library handle it loaded,
\* exactly once: no handle is held while the menu awaits input, at a pacing
\* prompt, or when main has returned or unwound.
C4_NoLibraryHeld ==
    \A p \in procs :
        /\ pc[p] \in {"AwaitingInput", "Pacing", "Returned", "Panicked"} => libs[p] = {}
        /\ (pc[p] \in {"Pacing", "Panicked"} /\ Dispatch(input[p]) = "measure") =>
              \A h \in {HNtdll, HLib} :
                  Len(SelectSeq(calls[p], LAMBDA c : c.op = "FreeLibrary" /\ c.args = <<h>>))
                    = Len(SelectSeq(calls[p], LAMBDA c : c.op \in LoadOps /\ c.ok /\ c.args = <<h>>))

\* C5: reset_to_default issues end-period(1) and then begin-period(16), in
\* that order and nothing else, and returns and prints success exactly when
\* the begin-period(16) call succeeded.
C5_ResetOrder ==
    \A p \in procs :
        Ran(p, "reset_to_default") =>
            /\ Len(calls[p]) = 2
            /\ calls[p][1].op = "timeEndPeriod" /\ calls[p][1].args = <<1>>
            /\ calls[p][2].op = "timeBeginPeriod" /\ calls[p][2].args = <<16>>
            /\ ret[p] <=> calls[p][2].ok
            /\ HasMsg(Printed(p), "Successfully reset to default (~15.6ms)") <=> calls[p][2].ok
            /\ HasMsg(Printed(p), "Failed to reset to default") <=> ~calls[p][2].ok

\* C5's case: a reset after earlier menu actions left a 1 ms request outstanding,
\* whose begin-period(16) is refused.
C5_Witness ==
    \E p \in procs :
        Ran(p, "reset_to_default") /\ nActions[p] >= 3 /\ periods[p][Target] > 0 /\ ~ret[p]

\* C6: an input line that trims to none of "1", "2", "3", "4" prints the one
\* "Invalid option!" message, makes no OS call at all, and the loop goes back
\* to AwaitingInput from the pacing prompt.
C6_InvalidOption ==
    [][\A p \in procs :
          Ran(p, "invalid") =>
              /\ Printed(p) = <<InvalidMsg, PressEnter>>
              /\ calls[p] = <<>>
              /\ pc'[p] \in {"Pacing", "AwaitingInput"}]_vars

\* C7: a failed read at the menu prompt ends the program; a failed read at a
\* "Press Enter to continue..." prompt is ignored: the process runs on and the
\* loop is at AwaitingInput.
C7_ReadFailures ==
    \A p \in procs :
        ~lastRead[p].ok =>
            /\ lastRead[p].prompt = "menu" => pc[p] \in {"Panicked", "Terminated"}
            /\ lastRead[p].prompt = "pacing" => pc[p] = "AwaitingInput"

\* C8: when is_running_as_admin returned false the process shows the
\* restart-as-administrator lines and only leaves: it never reads a menu line
\* and makes no timer call; the same when create_app_mutex returned None.  Once
\* main has returned (or unwound) on the not-elevated path, the process holds
\* no handle to the mutex any more.
C8_StartupRefusal ==
    \A p \in procs :
        /\ (admin[p] = "no" \/ mutexHandle[p] = "None") =>
              Leaving(p) /\ timerCalls[p] = 0 /\ nActions[p] = 0
        /\ admin[p] = "no" => out[p] = NotAdminText
        /\ mutexHandle[p] = "None" => out[p] = AlreadyRunningText
        /\ (admin[p] = "no" /\ pc[p] \in {"Returned", "Panicked"}) => mutexOpen[p] = 0

\* C8's case: a process that created the mutex, was found not elevated, and has
\* returned from main.
C8_Witness ==
    \E p \in procs :
        admin[p] = "no" /\ mutexHandle[p] = "Some" /\ pc[p] = "Returned"

\* The OS calls of a menu action whose failure C9 speaks of.
C9_FailedCall(p) ==
    \E i \in 1..Len(calls[p]) :
        /\ ~calls[p][i].ok
        /\ \/ calls[p][i].op \in {"timeGetDevCaps", "timeBeginPeriod", "LoadLibraryW",
                                  "Library::new", "GetProcAddress"}
           \/ /\ calls[p][i].op = "NtQueryTimerResolution"
              /\ Len(CallsOf(SubSeq(calls[p], 1, i), "NtQueryTimerResolution")) <= Iterations
FailureTexts == {"Failed to set.", "Failed to reset to default", "LoadLibrary failed",
                 "Failed to load NtQueryTimerResolution", "NtQueryTimerResolution failed"}
SuccessTexts == {"SC set to", "Setting to system minimum", "Setting to system maximum",
                 "Successfully reset to default (~15.6ms)", "Average over iterations"}

\* C9: when an OS call of a menu action failed, the action printed a failure
\* message and no success message, and the process is at the pacing prompt,
\* still running.
C9_FailuresReported ==
    \A p \in procs :
        (Dispatch(input[p]) \in {"set_custom", "measure", "reset_to_default"}
           /\ pc[p] \in {"Pacing", "Panicked"} /\ lastRead[p].prompt = "menu"
           /\ C9_FailedCall(p)) =>
            /\ pc[p] = "Pacing"
            /\ \E t \in FailureTexts : HasMsg(Printed(p), t)
            /\ \A t \in SuccessTexts : ~HasMsg(Printed(p), t)

\* C10: after reset_to_default no begin-period request of set_custom is left
\* unmatched (set_custom never asks for the default period).
C10_ResetEndsRequests ==
    \A p \in procs :
        Ran(p, "reset_to_default") =>
            \A q \in Periods \ {DefaultPeriod} : periods[p][q] = 0

====
